---- MODULE Spec2Model ----
(***************************************************************************)
(* The ingestion and consolidation pipeline of Emerson: IngestionView      *)
(* (drop / pick folder, classifyFiles, presentSummary, handleAnswer,       *)
(* buildProject), lib/analysis.ts (classifyFile, analyzeProject) and the   *)
(* helpers of lib/files.ts and lib/db.ts they call.                        *)
(*                                                                         *)
(* Text whose characters matter (entity names, file content, the project   *)
(* name) is a sequence of character codes; text that is only compared for  *)
(* equality (file names, message texts, answers) is a TLA+ string.         *)
(* Values decoded from the gateway's JSON are tagged, so that JavaScript's *)
(* truthiness (x || default) is computed rather than assumed.              *)
(***************************************************************************)
EXTENDS FiniteSets, Integers, Sequences, TLC

VARIABLES
    openRouterKey,   \* useAppStore().openRouterKey is set
    step,            \* IngestionStep
    files,           \* DroppedFile[]
    classifiedFiles, \* ClassifiedFile[]
    analysis,        \* IngestionAnalysis | null
    messages,        \* Message[]
    projectName,     \* text of the name input
    isProcessing,
    progress,
    answers,         \* Record<string, string>
    error,           \* string | null
    timers,          \* callbacks handed to setTimeout and not yet run
    projects, codex, chapters, scenes,   \* tables of the Dexie database
    nextId,          \* next value crypto.randomUUID() returns
    pc,              \* the await at which the running handler is suspended
    i,               \* loop index of the suspended handler
    classified,      \* classifyFiles: the local array being filled
    project,         \* buildProject: the local project record
    chapterEntry,    \* buildProject: the local chapterEntry of the iteration
    completed,       \* ids handed to onComplete
    calls,           \* history: the gateway's reply to each call of classifyFile,
                     \* and whether the call threw
    consolidation,   \* history: the gateway's reply to the consolidation call
    asked,           \* history: indexes of the questions put to the user
    issues,          \* .ralph/issues.json: the array .issues
    loop,            \* ralph.sh: run_loop is "idle" (not started), "running" or "exited"
    last,            \* history: the latest call of process_issue
    words,           \* analyzeProject: a value of totalWords
    estimate,        \* analyzeProject: the estimatedCompletion computed from it
    others,          \* the tables of the database that the view does not write
    tx               \* deleteProject: the transaction under way, or none

vars == <<openRouterKey, step, files, classifiedFiles, analysis, messages,
          projectName, isProcessing, progress, answers, error, timers,
          projects, codex, chapters, scenes, nextId, pc, i, classified,
          project, chapterEntry, completed, calls, consolidation, asked,
          issues, loop, last, words, estimate, others, tx>>

ralphVars == <<issues, loop, last>>
libVars == <<words, estimate, others, tx>>

----------------------------------------------------------------------------
(* Bounds of the model.                                                    *)

MaxFiles == 2       \* files in one drop
MaxEntities == 2    \* entity strings of one class in one gateway reply
MaxQuestions == 3   \* questions in one consolidation reply
MaxAnswers == 4     \* calls of handleAnswer in one run
MaxBuilds == 1      \* presses of Create in one run
MaxCharacters == 25 \* distinct characters of one gateway reply
MaxLocations == 20  \* distinct locations of one gateway reply

----------------------------------------------------------------------------
(* JavaScript values.                                                      *)

Undefined == [t |-> "undefined"]
Null == [t |-> "null"]
Str(s) == [t |-> "str", v |-> s]
Num(n) == [t |-> "num", v |-> n]
Bool(b) == [t |-> "bool", v |-> b]
List(l) == [t |-> "list", v |-> l]

Truthy(x) ==
    CASE x.t = "undefined" -> FALSE
      [] x.t = "null" -> FALSE
      [] x.t = "str" -> x.v # ""
      [] x.t = "num" -> x.v # 0
      [] x.t = "bool" -> x.v
      [] OTHER -> TRUE

\* x || d
OrElse(x, d) == IF Truthy(x) THEN x ELSE d

Range(s) == {s[k] : k \in DOMAIN s}

SeqsUpTo(S, n) == UNION {[1..k -> S] : k \in 0..n}

----------------------------------------------------------------------------
(* Strings as character codes: String.prototype.trim, toLowerCase, split.  *)

IsSpace(c) == c \in {9, 10, 13, 32}

toLowerCase(s) == [k \in 1..Len(s) |-> IF s[k] \in 65..90 THEN s[k] + 32 ELSE s[k]]

RECURSIVE trimStart(_)
trimStart(s) == IF s # <<>> /\ IsSpace(Head(s)) THEN trimStart(Tail(s)) ELSE s

RECURSIVE trimEnd(_)
trimEnd(s) ==
    IF s # <<>> /\ IsSpace(s[Len(s)]) THEN trimEnd(SubSeq(s, 1, Len(s) - 1)) ELSE s

trim(s) == trimEnd(trimStart(s))

\* text.split(/\s+/): the pieces between maximal runs of white space
RECURSIVE splitSpaces(_, _)
splitSpaces(s, cur) ==
    IF s = <<>> THEN <<cur>>
    ELSE IF IsSpace(Head(s)) THEN <<cur>> \o splitSpaces(trimStart(s), <<>>)
    ELSE splitSpaces(Tail(s), Append(cur, Head(s)))

countWords(text) ==
    Len(SelectSeq(splitSpaces(trim(text), <<>>), LAMBDA w : Len(w) > 0))

----------------------------------------------------------------------------
(* The gateway's reply to one call of generate: it throws, or it returns   *)
(* text. The text is fenced or not, and its body is not JSON, JSON null,   *)
(* or a JSON object.                                                       *)

Throws == [kind |-> "throw"]
Text(fence, body) == [kind |-> "text", fence |-> fence, body |-> body]
NotJson == [json |-> "error"]
JsonNull == [json |-> "null"]
JsonObject(o) == [json |-> "object", o |-> o]

\* content.replace(/```json\n?|\n?```/g, '')
stripFences(content) == [content EXCEPT !.fence = "none"]

\* JSON.parse: a fence left in the text is a syntax error
JSONparse(content) == IF content.fence # "none" THEN NotJson ELSE content.body

----------------------------------------------------------------------------
(* classifyFile                                                            *)

Degraded(file) ==
    [name |-> file.name, path |-> file.path, content |-> file.content,
     classification |-> Str("unknown"),
     confidence |-> Num(0),
     summary |-> Str("Failed to analyze"),
     extractedEntities |->
        [characters |-> List(<<>>), locations |-> List(<<>>), concepts |-> List(<<>>)],
     chapterGuess |-> Undefined,
     isComplete |-> Undefined]

\* confidence is kept in hundredths: 0.5 is Num(50)
FromParsed(file, o) ==
    [name |-> file.name, path |-> file.path, content |-> file.content,
     classification |-> OrElse(o.classification, Str("unknown")),
     confidence |-> OrElse(o.confidence, Num(50)),
     summary |-> OrElse(o.summary, Str("Could not summarize")),
     extractedEntities |->
        [characters |-> OrElse(o.characters, List(<<>>)),
         locations |-> OrElse(o.locations, List(<<>>)),
         concepts |-> OrElse(o.concepts, List(<<>>))],
     chapterGuess |-> o.chapterNumber,
     isComplete |-> o.isComplete]

Returned(v) == [threw |-> FALSE, value |-> v]
Thrown == [threw |-> TRUE]

\* The call of generate is awaited outside the try block: its rejection is
\* classifyFile's rejection. Inside the try, a syntax error of JSON.parse and
\* the property read on null are caught.
classifyFile(file, reply) ==
    IF reply.kind = "throw" THEN Thrown
    ELSE LET parsed == JSONparse(stripFences(reply))
         IN IF parsed.json = "object"
            THEN Returned(FromParsed(file, parsed.o))
            ELSE Returned(Degraded(file))

----------------------------------------------------------------------------
(* analyzeProject: the local aggregation.                                  *)

\* A Map is the sequence of its entries in insertion order.
IndexOfKey(map, key) ==
    IF \E k \in DOMAIN map : map[k].key = key
    THEN CHOOSE k \in DOMAIN map : map[k].key = key
    ELSE 0

\* normalize with the key lower-cased but not trimmed.
normalizeUntrimmed(s) == toLowerCase(s)

\* const normalized = char.toLowerCase().trim()
normalize(s) == trim(toLowerCase(s))

\* map.has(key)
has(map, key) == IndexOfKey(map, key) > 0

\* existing.mentions++ with the push of file.name done every time.
mentionAndPush(map, key, fileName) ==
    [map EXCEPT
        ![IndexOfKey(map, key)].mentions = @ + 1,
        ![IndexOfKey(map, key)].appearsIn = Append(@, fileName)]

\* existing.mentions++ and, unless the file is listed already,
\* existing.appearsIn.push(file.name)
mention(map, key, fileName) ==
    [map EXCEPT
        ![IndexOfKey(map, key)].mentions = @ + 1,
        ![IndexOfKey(map, key)].appearsIn =
            IF fileName \in Range(@) THEN @ ELSE Append(@, fileName)]

\* map.set(normalized, {name, mentions: 1, appearsIn: [file.name]})
set(map, key, s, fileName) ==
    Append(map, [key |-> key, name |-> s, mentions |-> 1, appearsIn |-> <<fileName>>])

\* The inner loop: the extracted strings of one file, in order.
RECURSIVE addMentions(_, _, _)
addMentions(map, names, fileName) ==
    IF names = <<>> THEN map
    ELSE LET normalized == normalize(Head(names))
         IN IF has(map, normalized)
            THEN addMentions(mention(map, normalized, fileName), Tail(names), fileName)
            ELSE addMentions(set(map, normalized, Head(names), fileName),
                             Tail(names), fileName)

\* The outer loop over the files, for one entity class.
RECURSIVE aggregate(_, _, _)
aggregate(map, fs, class) ==
    IF fs = <<>> THEN map
    ELSE aggregate(addMentions(map, Head(fs).extractedEntities[class].v, Head(fs).name),
                   Tail(fs), class)

\* for (const x of value) throws a TypeError unless value is iterable
Iterable(x) == x.t = "list"

\* The comparators are (a, b) => b[field] - a[field] (descending) and
\* (a, b) => a[field] - b[field] (ascending): a negative result puts a first.
comesBefore(a, b, field, descending) ==
    IF descending THEN a[field] > b[field] ELSE a[field] < b[field]

\* A sort that puts, of two elements the comparator holds equal, the later
\* one first.
sortTiesReversed(list, field, descending) ==
    LET ahead(j, k) ==
            \/ comesBefore(list[j], list[k], field, descending)
            \/ ~comesBefore(list[k], list[j], field, descending) /\ j > k
        place(k) == Cardinality({j \in DOMAIN list : ahead(j, k)}) + 1
    IN [r \in DOMAIN list |-> list[CHOOSE k \in DOMAIN list : place(k) = r]]

\* Array.prototype.sort is stable: an element is placed behind those the
\* comparator puts before it and behind those it holds equal that stood
\* before it in the list.
sort(list, field, descending) ==
    LET ahead(j, k) ==
            \/ comesBefore(list[j], list[k], field, descending)
            \/ ~comesBefore(list[k], list[j], field, descending) /\ j < k
        place(k) == Cardinality({j \in DOMAIN list : ahead(j, k)}) + 1
    IN [r \in DOMAIN list |-> list[CHOOSE k \in DOMAIN list : place(k) = r]]

\* .sort((a, b) => b.mentions - a.mentions)
sortByMentions(list) == sort(list, "mentions", TRUE)

characterValues(map) ==
    [k \in DOMAIN map |->
        [name |-> map[k].name, aliases |-> <<>>, mentions |-> map[k].mentions,
         appearsIn |-> map[k].appearsIn, role |-> "unknown"]]

locationValues(map) ==
    [k \in DOMAIN map |->
        [name |-> map[k].name, mentions |-> map[k].mentions,
         appearsIn |-> map[k].appearsIn]]

conceptValues(map) ==
    [k \in DOMAIN map |->
        [name |-> map[k].name, type |-> "other", mentions |-> map[k].mentions,
         appearsIn |-> map[k].appearsIn]]

isChapterFile(f) ==
    f.classification = Str("chapter-draft") \/ f.classification = Str("scene-fragment")

\* file.chapterGuess || 0
chapterNumberOf(f) == IF Truthy(f.chapterGuess) THEN f.chapterGuess.v ELSE 0

IndexOfNumber(map, num) ==
    IF \E k \in DOMAIN map : map[k].number = num
    THEN CHOOSE k \in DOMAIN map : map[k].number = num
    ELSE 0

\* addChapterFile with the status taken from the latest file of the bucket.
addChapterFileLatestStatus(map, file) ==
    LET num == chapterNumberOf(file)
        at == IndexOfNumber(map, num)
    IN IF at > 0
       THEN [map EXCEPT
                ![at].files = Append(@, file.name),
                ![at].wordCount = @ + countWords(file.content),
                ![at].status = IF Truthy(file.isComplete) THEN "complete" ELSE "partial",
                ![at].hasAlternateVersions = TRUE]
       ELSE Append(map, [number |-> num,
                         files |-> <<file.name>>,
                         wordCount |-> countWords(file.content),
                         status |-> IF Truthy(file.isComplete) THEN "complete" ELSE "partial",
                         hasAlternateVersions |-> FALSE])

addChapterFile(map, file) ==
    LET num == chapterNumberOf(file)
        at == IndexOfNumber(map, num)
    IN IF at > 0
       THEN [map EXCEPT
                ![at].files = Append(@, file.name),
                ![at].wordCount = @ + countWords(file.content),
                ![at].hasAlternateVersions = TRUE]
       ELSE Append(map, [number |-> num,
                         files |-> <<file.name>>,
                         wordCount |-> countWords(file.content),
                         status |-> IF Truthy(file.isComplete) THEN "complete" ELSE "partial",
                         hasAlternateVersions |-> FALSE])

RECURSIVE chapterMap(_, _)
chapterMap(map, fs) ==
    IF fs = <<>> THEN map ELSE chapterMap(addChapterFile(map, Head(fs)), Tail(fs))

\* .sort((a, b) => a.number - b.number)
buildChapters(fs) == sort(chapterMap(<<>>, SelectSeq(fs, isChapterFile)), "number", FALSE)

RECURSIVE sumWords(_)
sumWords(fs) == IF fs = <<>> THEN 0 ELSE countWords(Head(fs).content) + sumWords(Tail(fs))

\* The totals below 80000 at which (totalWords / 80000) * 100, evaluated in
\* binary64 as JavaScript does, falls just below k + 0.5 although the exact
\* quotient is k + 0.5: 11600 gives 14.499999999999998, 22800 gives
\* 28.499999999999996, 45200 gives 56.49999999999999 and 46000 gives
\* 57.49999999999999. At every other total the binary64 value rounds as the exact one.
HalfwayBelow == {11600, 22800, 45200, 46000}

\* Math.min(100, Math.round((totalWords / 80000) * 100))
estimatedCompletion(totalWords) ==
    LET rounded == IF totalWords \in HalfwayBelow
                   THEN totalWords \div 800
                   ELSE (totalWords + 400) \div 800
    IN IF rounded < 100 THEN rounded ELSE 100

\* The three for-of loops throw on the first file whose extracted list is
\* not iterable.
aggregationThrows(fs) ==
    \E k \in DOMAIN fs : \E class \in {"characters", "locations", "concepts"} :
        ~Iterable(fs[k].extractedEntities[class])

\* consolidate with the call outside the defaults: a failed call leaves the
\* genre empty.
consolidateWithoutGenre(reply) ==
    LET parsed == IF reply.kind = "throw" THEN NotJson ELSE JSONparse(stripFences(reply))
    IN IF parsed.json = "object"
       THEN [genre |-> OrElse(parsed.o.genreGuess, Str("Fiction")).v,
             possibleDuplicates |-> OrElse(parsed.o.possibleDuplicates, List(<<>>)).v,
             questions |-> OrElse(parsed.o.questions, List(<<>>)).v]
       ELSE [genre |-> "", possibleDuplicates |-> <<>>, questions |-> <<>>]

\* What the consolidation reply leaves in genreGuess, possibleDuplicates and
\* questions: the call and the parse are inside the try block.
consolidate(reply) ==
    LET defaults == [genre |-> "Fiction", possibleDuplicates |-> <<>>, questions |-> <<>>]
        parsed == IF reply.kind = "throw" THEN NotJson ELSE JSONparse(stripFences(reply))
    IN IF parsed.json = "object"
       THEN [genre |-> OrElse(parsed.o.genreGuess, Str("Fiction")).v,
             possibleDuplicates |-> OrElse(parsed.o.possibleDuplicates, List(<<>>)).v,
             questions |-> OrElse(parsed.o.questions, List(<<>>)).v]
       ELSE defaults

analyzeProject(fs, reply) ==
    IF aggregationThrows(fs) THEN Thrown
    ELSE LET totalWords == sumWords(fs)
             c == consolidate(reply)
         IN Returned(
              [genre |-> c.genre,
               totalWords |-> totalWords,
               files |-> fs,
               characters |-> sortByMentions(characterValues(aggregate(<<>>, fs, "characters"))),
               locations |-> sortByMentions(locationValues(aggregate(<<>>, fs, "locations"))),
               concepts |-> sortByMentions(conceptValues(aggregate(<<>>, fs, "concepts"))),
               possibleDuplicates |-> c.possibleDuplicates,
               structureGuess |->
                  [chapters |-> buildChapters(fs),
                   estimatedCompletion |-> estimatedCompletion(totalWords)],
               questions |-> c.questions])

----------------------------------------------------------------------------
(* IngestionView: state after construction.                                *)

NoAnalysis == [null |-> TRUE]
NoError == "null"
NoProgress == [text |-> "", i |-> 0, n |-> 0]
Progress(text) == [text |-> text, i |-> 0, n |-> 0]
\* `Analyzing file ${i} of ${n}: ${name}`, counting from 0.
FileProgressFromZero(k, n) == [text |-> "Analyzing file", i |-> k - 1, n |-> n]

\* `Analyzing file ${i + 1} of ${n}: ${name}`
FileProgress(k, n) == [text |-> "Analyzing file", i |-> k, n |-> n]
NoRecord == [null |-> TRUE]
NoAnswers == [k \in {} |-> ""]

\* premises, beatSheets, issues, continuityFacts, foreshadowing: all empty
OtherTables == {"premises", "beatSheets", "issues", "continuityFacts", "foreshadowing"}
NoOthers == [t \in OtherTables |-> {}]

Msg(type, content) == [type |-> type, content |-> content]

Init ==
    /\ openRouterKey \in BOOLEAN
    /\ step = "welcome"
    /\ files = <<>>
    /\ classifiedFiles = <<>>
    /\ analysis = NoAnalysis
    /\ messages = <<>>
    /\ projectName = <<>>
    /\ isProcessing = FALSE
    /\ progress = NoProgress
    /\ answers = NoAnswers
    /\ error = NoError
    /\ timers = <<>>
    /\ projects = {} /\ codex = {} /\ chapters = {} /\ scenes = {}
    /\ nextId = 1
    /\ pc = "idle"
    /\ i = 0
    /\ classified = <<>>
    /\ project = NoRecord
    /\ chapterEntry = NoRecord
    /\ completed = <<>>
    /\ calls = <<>>
    /\ consolidation = "none"
    /\ asked = <<>>
    /\ issues = <<>>
    /\ loop = "idle"
    /\ last = NoRecord
    /\ words = 0
    /\ estimate = NoRecord
    /\ others = NoOthers
    /\ tx = NoRecord

storeVars == <<projects, codex, chapters, scenes, nextId, project, chapterEntry, completed>>
dialogVars == <<answers, asked>>

\* The welcome block is rendered only while the transcript is empty.
WelcomeShown == step = "welcome" /\ messages = <<>>

----------------------------------------------------------------------------
(* Reading: the drop zone, handleDrop, handlePickFolder.                   *)

DragEnter ==
    /\ WelcomeShown
    /\ step' = "dropping"
    /\ UNCHANGED ralphVars /\ UNCHANGED libVars
    /\ UNCHANGED <<openRouterKey, files, classifiedFiles, analysis, messages, projectName,
                   isProcessing, progress, error, timers, pc, i, classified, calls, consolidation>>
    /\ UNCHANGED storeVars /\ UNCHANGED dialogVars

DragLeave ==
    /\ step = "dropping"
    /\ step' = "welcome"
    /\ UNCHANGED ralphVars /\ UNCHANGED libVars
    /\ UNCHANGED <<openRouterKey, files, classifiedFiles, analysis, messages, projectName,
                   isProcessing, progress, error, timers, pc, i, classified, calls, consolidation>>
    /\ UNCHANGED storeVars /\ UNCHANGED dialogVars

\* Up to the first await of the handler.
startReading(await, notice) ==
    IF ~openRouterKey
    THEN /\ error' = "Please add your OpenRouter API key in Settings first."
         /\ UNCHANGED <<step, isProcessing, messages, pc>>
    ELSE /\ step' = "reading"
         /\ isProcessing' = TRUE
         /\ messages' = Append(messages, Msg("system", notice))
         /\ pc' = await
         /\ UNCHANGED error

handleDrop ==
    /\ WelcomeShown \/ step = "dropping"
    /\ pc = "idle"
    /\ startReading("processFiles", "Reading your files...")
    /\ UNCHANGED ralphVars /\ UNCHANGED libVars
    /\ UNCHANGED <<openRouterKey, files, classifiedFiles, analysis, projectName,
                   progress, timers, i, classified, calls, consolidation>>
    /\ UNCHANGED storeVars /\ UNCHANGED dialogVars

handlePickFolder ==
    /\ WelcomeShown
    /\ pc = "idle"
    /\ startReading("pickFolder", "Reading your folder...")
    /\ UNCHANGED ralphVars /\ UNCHANGED libVars
    /\ UNCHANGED <<openRouterKey, files, classifiedFiles, analysis, projectName,
                   progress, timers, i, classified, calls, consolidation>>
    /\ UNCHANGED storeVars /\ UNCHANGED dialogVars

\* processFiles / pickFolder has settled: the rest of the handler up to the
\* first call of classifyFile. read is [threw, value, abort].
filesRead(env) ==
    /\ pc \in {"processFiles", "pickFolder"}
    /\ \E read \in env.reads :
        IF read.threw
        THEN /\ error' = IF pc = "processFiles" THEN "Failed to read files. Please try again."
                         ELSE IF read.abort THEN error
                         ELSE "Failed to read folder."
             /\ step' = "welcome"
             /\ isProcessing' = FALSE
             /\ pc' = "idle"
             /\ UNCHANGED <<files, messages, progress, i, classified>>
        ELSE /\ files' = read.value
             /\ UNCHANGED error
             /\ IF Len(read.value) = 0
                THEN /\ messages' = Append(messages,
                                       Msg("assistant", "I couldn't find any text files"))
                     /\ step' = "welcome"
                     /\ isProcessing' = FALSE
                     /\ pc' = "idle"
                     /\ UNCHANGED <<progress, i, classified>>
                ELSE /\ messages' = Append(messages, Msg("assistant", "Found files"))
                     /\ step' = "classifying"
                     /\ classified' = <<>>
                     /\ i' = 1
                     /\ progress' = FileProgress(1, Len(read.value))
                     /\ pc' = "classifyFile"
                     /\ UNCHANGED isProcessing
    /\ UNCHANGED ralphVars /\ UNCHANGED libVars
    /\ UNCHANGED <<openRouterKey, classifiedFiles, analysis, projectName, timers, calls, consolidation>>
    /\ UNCHANGED storeVars /\ UNCHANGED dialogVars

----------------------------------------------------------------------------
(* classifyFiles                                                           *)

\* How a reply reads once fences are stripped: "throw", "error" (no JSON),
\* "null" or "object".
replyKind(reply) == IF reply.kind = "throw" THEN "throw" ELSE JSONparse(stripFences(reply)).json

\* pushResult with a catch that pushes nothing.
pushResultUnlessThrown(array, file, reply) ==
    LET result == classifyFile(file, reply)
    IN IF result.threw THEN array ELSE Append(array, result.value)

\* One iteration of the loop: the try around the call of classifyFile, whose
\* catch pushes the degraded record.
pushResult(array, file, reply) ==
    LET result == classifyFile(file, reply)
    IN Append(array, IF result.threw THEN Degraded(file) ELSE result.value)

\* The call for files[i] has settled. After the last file the handler runs on
\* into analyzeProject, up to its await of generate.
classifyFiles(env) ==
    /\ pc = "classifyFile"
    /\ \E reply \in env.classifyReplies :
        LET next == pushResult(classified, files[i], reply)
        IN /\ classified' = next
           /\ calls' = Append(calls, [reply |-> reply,
                                      threw |-> classifyFile(files[i], reply).threw])
           /\ IF i < Len(files)
              THEN /\ i' = i + 1
                   /\ progress' = FileProgress(i + 1, Len(files))
                   /\ UNCHANGED <<classifiedFiles, step, messages, pc>>
              ELSE /\ classifiedFiles' = next
                   /\ step' = "analyzing"
                   /\ messages' = Append(messages,
                                     Msg("assistant", "I've read all your files."))
                   /\ progress' = IF aggregationThrows(next)
                                  THEN Progress("Consolidating findings...")
                                  ELSE Progress("Looking for duplicates and generating questions...")
                   /\ pc' = "analyzeProject"
                   /\ UNCHANGED i
    /\ UNCHANGED ralphVars /\ UNCHANGED libVars
    /\ UNCHANGED <<openRouterKey, files, analysis, projectName, isProcessing, error, timers,
                   consolidation>>
    /\ UNCHANGED storeVars /\ UNCHANGED dialogVars

----------------------------------------------------------------------------
(* presentSummary                                                          *)

presentSummary(an) ==
    LET complete == SelectSeq(an.structureGuess.chapters, LAMBDA c : c.status = "complete")
        partial == SelectSeq(an.structureGuess.chapters, LAMBDA c : c.status = "partial")
        card == <<Msg("assistant", "Here's what I found:"), Msg("assistant", "")>>
        chapterNote == IF Len(complete) > 0 \/ Len(partial) > 0
                       THEN <<Msg("assistant", "Of those chapters")>> ELSE <<>>
    IN [messages |-> card \o chapterNote,
        timer |-> IF Len(an.questions) > 0 \/ Len(an.possibleDuplicates) > 0
                  THEN [run |-> "questions"] ELSE [run |-> "confirm"]]

\* analyzeProject has settled: the rest of classifyFiles.
analyzed(env) ==
    /\ pc = "analyzeProject"
    /\ \E reply \in env.consolidateReplies :
        LET result == analyzeProject(classified, reply)
        IN IF result.threw
           THEN /\ error' = "Failed to analyze project. Please try again."
                /\ step' = "welcome"
                /\ UNCHANGED <<analysis, progress, messages, timers, consolidation>>
           ELSE /\ analysis' = result.value
                /\ consolidation' = replyKind(reply)
                /\ progress' = NoProgress
                /\ step' = "summary"
                /\ messages' = messages \o presentSummary(result.value).messages
                /\ timers' = Append(timers, presentSummary(result.value).timer)
                /\ UNCHANGED error
    /\ isProcessing' = FALSE
    /\ pc' = "idle"
    /\ UNCHANGED ralphVars /\ UNCHANGED libVars
    /\ UNCHANGED <<openRouterKey, files, classifiedFiles, projectName, i, classified, calls>>
    /\ UNCHANGED storeVars /\ UNCHANGED dialogVars

----------------------------------------------------------------------------
(* The clarification dialogue: renderCurrentQuestion, handleAnswer.        *)

\* !answers[q.id]: the id is no key of the map, or its answer is ''
notAnswered(ans, id) == ~(id \in DOMAIN ans /\ ans[id] # "")

\* Indexes of analysis.questions.filter(q => !answers[q.id])
unanswered(an, ans) ==
    SelectSeq([k \in DOMAIN an.questions |-> k],
              LAMBDA k : notAnswered(ans, an.questions[k].id))

\* The question whose controls renderCurrentQuestion returns: its index in
\* analysis.questions, 0 for null.
renderCurrentQuestion(an, ans, st) ==
    IF an = NoAnalysis \/ st # "questions" THEN 0
    ELSE IF unanswered(an, ans) = <<>> THEN 0
    ELSE Head(unanswered(an, ans))

\* What the user can send for question q: one of its option buttons, or a
\* non-blank text typed into the input.
answersTo(q, env) == IF Truthy(q.options) THEN Range(q.options.v) ELSE env.texts

\* Indexes of questions.filter(q => !answers[q.id] && q.id !== questionId)
unansweredQuestions(an, ans, questionId) ==
    SelectSeq([k \in DOMAIN an.questions |-> k],
              LAMBDA k : notAnswered(ans, an.questions[k].id)
                         /\ an.questions[k].id # questionId)

\* A map that keeps the answer an id already has.
setAnswerOnce(ans, questionId, answer) ==
    [k \in DOMAIN ans \cup {questionId} |-> IF k \in DOMAIN ans THEN ans[k] ELSE answer]

setAnswer(ans, questionId, answer) ==
    [k \in DOMAIN ans \cup {questionId} |-> IF k = questionId THEN answer ELSE ans[k]]

\* The timer handleAnswer starts.
afterAnswer(an, ans, questionId) ==
    IF unansweredQuestions(an, ans, questionId) # <<>>
    THEN [run |-> "next", q |-> Head(unansweredQuestions(an, ans, questionId))]
    ELSE [run |-> "answered"]

\* asked records each rendering of a question's controls that follows a
\* change of the dialogue's state.
handleAnswer(env) ==
    /\ ~isProcessing
    /\ Len(SelectSeq(messages, LAMBDA m : m.type = "user")) < MaxAnswers
    /\ LET cur == renderCurrentQuestion(analysis, answers, step)
       IN /\ cur # 0
          /\ \E answer \in answersTo(analysis.questions[cur], env) :
              LET questionId == analysis.questions[cur].id
                  then == renderCurrentQuestion(analysis,
                              setAnswer(answers, questionId, answer), step)
              IN /\ answers' = setAnswer(answers, questionId, answer)
                 /\ messages' = Append(messages, Msg("user", answer))
                 /\ timers' = Append(timers, afterAnswer(analysis, answers, questionId))
                 /\ asked' = IF then # 0 THEN Append(asked, then) ELSE asked
    /\ UNCHANGED ralphVars /\ UNCHANGED libVars
    /\ UNCHANGED <<openRouterKey, step, files, classifiedFiles, analysis, projectName,
                   isProcessing, progress, error, pc, i, classified, calls, consolidation>>
    /\ UNCHANGED storeVars

\* A callback handed to setTimeout runs; callbacks run in the order they fall due.
timeout ==
    /\ timers # <<>>
    /\ timers' = Tail(timers)
    /\ LET t == Head(timers)
       IN CASE t.run = "questions" ->
                 /\ messages' = Append(messages, Msg("assistant", "I have a few questions"))
                 /\ step' = "questions"
                 /\ asked' = IF renderCurrentQuestion(analysis, answers, "questions") # 0
                             THEN Append(asked, renderCurrentQuestion(analysis, answers, "questions"))
                             ELSE asked
                 /\ UNCHANGED completed
            [] t.run = "confirm" ->
                 /\ messages' = Append(messages, Msg("assistant", "Everything looks pretty clear!"))
                 /\ step' = "confirm"
                 /\ UNCHANGED <<asked, completed>>
            [] t.run = "next" ->
                 /\ messages' = Append(messages, Msg("assistant", analysis.questions[t.q].question))
                 /\ UNCHANGED <<step, asked, completed>>
            [] t.run = "answered" ->
                 /\ messages' = Append(messages, Msg("assistant", "Perfect, I've got what I need."))
                 /\ step' = "confirm"
                 /\ UNCHANGED <<asked, completed>>
            [] t.run = "onComplete" ->
                 /\ completed' = Append(completed, t.id)
                 /\ UNCHANGED <<messages, step, asked>>
    /\ UNCHANGED ralphVars /\ UNCHANGED libVars
    /\ UNCHANGED <<openRouterKey, files, classifiedFiles, analysis, projectName,
                   isProcessing, progress, answers, error, pc, i, classified, calls, consolidation>>
    /\ UNCHANGED <<projects, codex, chapters, scenes, nextId, project, chapterEntry>>

----------------------------------------------------------------------------
(* The welcome block's 'Starting fresh' card and the name input.           *)

startFresh ==
    /\ WelcomeShown
    /\ messages' = Append(messages, Msg("assistant", "Starting fresh!"))
    /\ step' = "confirm"
    /\ UNCHANGED ralphVars /\ UNCHANGED libVars
    /\ UNCHANGED <<openRouterKey, files, classifiedFiles, analysis, projectName,
                   isProcessing, progress, error, timers, pc, i, classified, calls, consolidation>>
    /\ UNCHANGED storeVars /\ UNCHANGED dialogVars

ConfirmShown == step = "confirm" /\ ~isProcessing

setProjectName(env) ==
    /\ ConfirmShown
    /\ \E name \in env.names : name # projectName /\ projectName' = name
    /\ UNCHANGED ralphVars /\ UNCHANGED libVars
    /\ UNCHANGED <<openRouterKey, step, files, classifiedFiles, analysis, messages,
                   isProcessing, progress, error, timers, pc, i, classified, calls, consolidation>>
    /\ UNCHANGED storeVars /\ UNCHANGED dialogVars

----------------------------------------------------------------------------
(* buildProject                                                            *)

CharacterCap == 20
LocationCap == 15

\* slice with the end index included.
sliceThrough(list, n) == SubSeq(list, 1, IF Len(list) < n + 1 THEN Len(list) ELSE n + 1)

\* list.slice(0, n)
slice(list, n) == SubSeq(list, 1, IF Len(list) < n THEN Len(list) ELSE n)

\* A find that returns the last file of the chapter.
findLastChapterFile(cfs, chapter) ==
    IF \E k \in DOMAIN cfs : cfs[k].name \in Range(chapter.files)
    THEN CHOOSE k \in DOMAIN cfs :
            /\ cfs[k].name \in Range(chapter.files)
            /\ \A j \in (k + 1)..Len(cfs) : cfs[j].name \notin Range(chapter.files)
    ELSE 0

\* classifiedFiles.find(f => chapter.files.includes(f.name)): its index, 0 for
\* undefined
findChapterFile(cfs, chapter) ==
    IF \E k \in DOMAIN cfs : cfs[k].name \in Range(chapter.files)
    THEN CHOOSE k \in DOMAIN cfs :
            /\ cfs[k].name \in Range(chapter.files)
            /\ \A j \in 1..(k - 1) : cfs[j].name \notin Range(chapter.files)
    ELSE 0

\* String(n) of a non-negative integer: its decimal digits
RECURSIVE String(_)
String(n) == IF n < 10 THEN <<48 + n>> ELSE String(n \div 10) \o <<48 + (n % 10)>>

\* description: char.description || '', role: char.role || 'unknown'; the
\* mentions of analyzeProject carry no description and the role 'unknown'
characterEntry(char) ==
    [table |-> "codex", type |-> "character", name |-> char.name, aliases |-> char.aliases,
     description |-> "",
     attributes |-> [role |-> char.role, mentions |-> String(char.mentions)]]

locationEntry(loc) ==
    [table |-> "codex", type |-> "location", name |-> loc.name, aliases |-> <<>>,
     description |-> "", attributes |-> <<>>]

\* number: chapter.number || 0; title: chapter.title ||
\* `Chapter ${chapter.number || '?'}`, as character codes ("Chapter " is 67 104
\* 97 112 116 101 114 32, "?" is 63); the guesses of analyzeProject carry no
\* title
chapterRecord(chapter) ==
    [table |-> "chapters",
     number |-> chapter.number,
     title |-> <<67, 104, 97, 112, 116, 101, 114, 32>> \o
               (IF chapter.number # 0 THEN String(chapter.number) ELSE <<63>>)]

sceneRecord(chapter, chapterFile) ==
    [table |-> "scenes",
     number |-> 1,
     goal |-> OrElse(chapterFile.summary, Str("Imported scene")),
     status |-> IF chapter.status = "complete" THEN "drafted" ELSE "planned",
     content |-> chapterFile.content,
     wordCount |-> countWords(chapterFile.content)]

chapterWrites(cfs, chapter) ==
    <<chapterRecord(chapter)>> \o
    (IF findChapterFile(cfs, chapter) # 0
     THEN <<sceneRecord(chapter, cfs[findChapterFile(cfs, chapter)])>>
     ELSE <<>>)

RECURSIVE chaptersWrites(_, _)
chaptersWrites(cfs, chs) ==
    IF chs = <<>> THEN <<>>
    ELSE chapterWrites(cfs, Head(chs)) \o chaptersWrites(cfs, Tail(chs))

\* The same writes with the project record saved last.
writesOfProjectLast(an, cfs) ==
    [k \in DOMAIN slice(an.characters, CharacterCap) |-> characterEntry(an.characters[k])]
    \o [k \in DOMAIN slice(an.locations, LocationCap) |-> locationEntry(an.locations[k])]
    \o chaptersWrites(cfs, an.structureGuess.chapters)
    \o <<[table |-> "projects"]>>

\* The writes buildProject awaits one after the other, in order.
writesOf(an, cfs) ==
    <<[table |-> "projects"]>>
    \o [k \in DOMAIN slice(an.characters, CharacterCap) |-> characterEntry(an.characters[k])]
    \o [k \in DOMAIN slice(an.locations, LocationCap) |-> locationEntry(an.locations[k])]
    \o chaptersWrites(cfs, an.structureGuess.chapters)

progressAt(write) ==
    IF write.table = "projects" THEN progress
    ELSE IF write.table = "codex" /\ write.type = "character" THEN Progress("Creating characters...")
    ELSE IF write.table = "codex" THEN Progress("Creating locations...")
    ELSE Progress("Importing chapters...")

\* A put that resolves without storing anything.
putLost(table, record) == table

\* table.put(record): the record replaces the one with its key
put(table, record) == {r \in table : r.id # record.id} \cup {record}

\* The Create button; up to the await of saveProject.
buildProject(env) ==
    /\ ConfirmShown
    /\ trim(projectName) # <<>>
    /\ Len(SelectSeq(messages, LAMBDA m : m.content = "Building your project...")) < env.builds
    /\ IF analysis = NoAnalysis
       THEN UNCHANGED <<step, isProcessing, messages, project, nextId, pc, i>>
       ELSE /\ step' = "building"
            /\ isProcessing' = TRUE
            /\ messages' = Append(messages, Msg("system", "Building your project..."))
            /\ project' = [id |-> nextId,
                            name |-> trim(projectName),
                            genre |-> IF analysis.genre # "" THEN analysis.genre ELSE "Fiction",
                            status |-> "drafting"]
            /\ nextId' = nextId + 1
            /\ pc' = "put"
            /\ i' = 1
    /\ UNCHANGED ralphVars /\ UNCHANGED libVars
    /\ UNCHANGED <<openRouterKey, files, classifiedFiles, analysis, projectName,
                   progress, error, timers, classified, calls, consolidation>>
    /\ UNCHANGED <<projects, codex, chapters, scenes, chapterEntry, completed>>
    /\ UNCHANGED dialogVars

\* The record the pending put writes: every record gets its id right before
\* its put, so the id of the i-th write is the i-th id drawn since Create.
pendingRecord(write) ==
    LET id == project.id + i - 1
    IN CASE write.table = "projects" -> project
         [] write.table = "codex" ->
              [id |-> id, projectId |-> project.id, type |-> write.type, name |-> write.name,
               aliases |-> write.aliases, description |-> write.description,
               attributes |-> write.attributes]
         [] write.table = "chapters" ->
              [id |-> id, projectId |-> project.id, number |-> write.number,
               title |-> write.title]
         [] write.table = "scenes" ->
              [id |-> id, projectId |-> project.id, chapterId |-> chapterEntry.id,
               number |-> write.number, goal |-> write.goal, status |-> write.status,
               content |-> write.content, wordCount |-> write.wordCount]

\* A catch block that leaves the step and the spinner as they are.
catchWithoutReset ==
    /\ error' = "Failed to create project. Please try again."
    /\ UNCHANGED <<step, isProcessing>>

\* The catch block of buildProject.
catch ==
    /\ error' = "Failed to create project. Please try again."
    /\ step' = "confirm"
    /\ isProcessing' = FALSE

\* The awaited put has settled: the rest of buildProject up to its next await,
\* or its catch block.
putSettled(env) ==
    /\ pc = "put"
    /\ LET writes == writesOf(analysis, classifiedFiles)
           write == writes[i]
           record == pendingRecord(write)
       IN \E ok \in env.storeOk :
           IF ~ok
           THEN /\ catch
                /\ pc' = "idle"
                /\ UNCHANGED <<projects, codex, chapters, scenes, chapterEntry, nextId, i,
                               progress, messages, timers>>
           ELSE /\ projects' = IF write.table = "projects" THEN put(projects, record) ELSE projects
                /\ codex' = IF write.table = "codex" THEN put(codex, record) ELSE codex
                /\ chapters' = IF write.table = "chapters" THEN put(chapters, record) ELSE chapters
                /\ scenes' = IF write.table = "scenes" THEN put(scenes, record) ELSE scenes
                /\ chapterEntry' = IF write.table = "chapters" THEN record ELSE chapterEntry
                /\ UNCHANGED error
                /\ IF i < Len(writes)
                   THEN /\ i' = i + 1
                        /\ nextId' = nextId + 1
                        /\ progress' = progressAt(writes[i + 1])
                        /\ UNCHANGED <<step, isProcessing, pc, messages, timers>>
                   ELSE /\ progress' = NoProgress
                        /\ step' = "complete"
                        /\ isProcessing' = FALSE
                        /\ messages' = Append(messages, Msg("assistant", "Your project is ready!"))
                        /\ timers' = Append(timers, [run |-> "onComplete", id |-> project.id])
                        /\ pc' = "idle"
                        /\ UNCHANGED <<i, nextId>>
    /\ UNCHANGED ralphVars /\ UNCHANGED libVars
    /\ UNCHANGED <<openRouterKey, files, classifiedFiles, analysis, projectName,
                   classified, project, completed, calls, consolidation>>
    /\ UNCHANGED dialogVars

----------------------------------------------------------------------------
(* The next-state relation, for an environment env: what the user drops    *)
(* and types, what the gateway replies, whether the store accepts a put.   *)

Next(env) ==
    \/ DragEnter
    \/ DragLeave
    \/ handleDrop
    \/ handlePickFolder
    \/ filesRead(env)
    \/ classifyFiles(env)
    \/ analyzed(env)
    \/ timeout
    \/ handleAnswer(env)
    \/ startFresh
    \/ setProjectName(env)
    \/ buildProject(env)
    \/ putSettled(env)

----------------------------------------------------------------------------
(* Inputs.                                                                 *)

\* "a b", "x", "one two three"
Chapter1Txt == [name |-> "ch1.txt", path |-> "draft/ch1.txt", content |-> <<97, 32, 98>>]
NotesMd == [name |-> "notes.md", path |-> "notes.md", content |-> <<120>>]
OldChapter1Txt == [name |-> "ch1.txt", path |-> "old/ch1.txt",
                   content |-> <<111, 32, 116, 10, 116>>]

\* "Al", " al ", "Bo", "Cy"
Al == <<65, 108>>
alPadded == <<32, 97, 108, 32>>
Bo == <<66, 111>>
Cy == <<67, 121>>

ReadOk(fs) == [threw |-> FALSE, value |-> fs, abort |-> FALSE]
ReadThrew(abort) == [threw |-> TRUE, abort |-> abort]

ClassificationReply(class, confidence, summary, chars, locs, concepts, chapter, complete) ==
    JsonObject([classification |-> class, confidence |-> confidence, summary |-> summary,
                characters |-> chars, locations |-> locs, concepts |-> concepts,
                chapterNumber |-> chapter, isComplete |-> complete])

ChapterReply ==
    ClassificationReply(Str("chapter-draft"), Num(90), Str("Chapter one"),
                        List(<<Al, Bo>>), List(<<Cy>>), Undefined, Num(1), Bool(TRUE))
NotesReply ==
    ClassificationReply(Str("worldbuilding"), Num(0), Str(""),
                        List(<<alPadded>>), List(<<>>), List(<<Cy>>), Null, Undefined)
\* parses, but is not of the schema asked for
OffSchemaReply ==
    ClassificationReply(Str("poem"), Num(150), Num(1),
                        Num(5), List(<<>>), List(<<>>), Null, Undefined)

ConsolidationReply(genre, duplicates, questions) ==
    JsonObject([genreGuess |-> genre, possibleDuplicates |-> duplicates, questions |-> questions])

SamePerson == [id |-> "q1", type |-> "duplicate", question |-> "Are Al and al the same person?",
               options |-> List(<<"Yes", "No">>)]
Protagonist == [id |-> "q2", type |-> "character", question |-> "Who is the protagonist?",
                options |-> Undefined]
\* one option is the empty string
WhichDraft == [id |-> "q3", type |-> "canon", question |-> "Which draft is canon?",
               options |-> List(<<"", "The newer one">>)]
\* the id of SamePerson again
Gap == [id |-> "q1", type |-> "structure", question |-> "Is chapter 2 missing?",
        options |-> Undefined]

AlAndAl == [items |-> <<Al, alPadded>>, reason |-> "same name"]

FlowEnv ==
    [reads |-> {ReadOk(fs) : fs \in SeqsUpTo({Chapter1Txt, NotesMd}, MaxFiles)}
               \cup {ReadThrew(TRUE), ReadThrew(FALSE)},
     classifyReplies |-> {Throws, Text("none", NotJson), Text("none", JsonNull),
                          Text("json", ChapterReply), Text("none", NotesReply),
                          Text("none", OffSchemaReply)},
     consolidateReplies |-> {Throws, Text("none", NotJson),
                             Text("plain", ConsolidationReply(Str("Fantasy"), List(<<>>), Undefined)),
                             Text("none", ConsolidationReply(Undefined, List(<<AlAndAl>>), List(<<>>))),
                             Text("none", ConsolidationReply(Str("Fantasy"), List(<<AlAndAl>>),
                                                             List(<<SamePerson, Protagonist>>)))},
     texts |-> {"Al"},
     names |-> {<<>>, <<32>>, <<32, 66, 107>>},
     storeOk |-> BOOLEAN,
     builds |-> MaxBuilds]

Spec == Init /\ [][Next(FlowEnv)]_vars

----------------------------------------------------------------------------
(* The aggregation over many extracted lists: the run up to the summary.   *)

NamePool == {Al, alPadded, Bo, Cy}

Reverse(l) == [k \in 1..Len(l) |-> l[Len(l) + 1 - k]]

EntityReplies ==
    {Text("none", ClassificationReply(Str("notes"), Num(80), Str("Notes"),
                                      List(l), List(Reverse(l)), List(l), Null, Undefined)) :
        l \in SeqsUpTo(NamePool, MaxEntities)}

StructureReplies ==
    {Text("none", ClassificationReply(Str(class), Num(80), Str("Prose"),
                                      List(<<>>), List(<<>>), List(<<>>), number, complete)) :
        class \in {"chapter-draft", "scene-fragment", "notes"},
        number \in {Null, Num(1), Num(2)},
        complete \in {Bool(TRUE), Bool(FALSE), Undefined}}

AggEnv ==
    [reads |-> {ReadOk(<<Chapter1Txt, NotesMd>>), ReadOk(<<Chapter1Txt, OldChapter1Txt>>),
                ReadOk(<<NotesMd>>)},
     classifyReplies |-> EntityReplies \cup StructureReplies,
     consolidateReplies |-> {Throws},
     texts |-> {},
     names |-> {},
     storeOk |-> {},
     builds |-> MaxBuilds]

AggNext ==
    \/ handleDrop
    \/ handlePickFolder
    \/ filesRead(AggEnv)
    \/ classifyFiles(AggEnv)
    \/ analyzed(AggEnv)

AggSpec == Init /\ [][AggNext]_vars

----------------------------------------------------------------------------
(* The dialogue over every short list of questions.                        *)

QuestionPool == {SamePerson, Protagonist, WhichDraft, Gap}

DialogEnv ==
    [reads |-> {ReadOk(<<Chapter1Txt>>)},
     classifyReplies |-> {Text("json", ChapterReply)},
     consolidateReplies |->
        {Text("none", ConsolidationReply(Str("Fantasy"), List(d), List(qs))) :
            d \in {<<>>, <<AlAndAl>>}, qs \in SeqsUpTo(QuestionPool, MaxQuestions)},
     texts |-> {"Al"},
     names |-> {<<66, 107>>},
     storeOk |-> {TRUE},
     builds |-> MaxBuilds]

DialogNext ==
    \/ handleDrop
    \/ filesRead(DialogEnv)
    \/ classifyFiles(DialogEnv)
    \/ analyzed(DialogEnv)
    \/ timeout
    \/ handleAnswer(DialogEnv)
    \/ setProjectName(DialogEnv)
    \/ buildProject(DialogEnv)
    \/ putSettled(DialogEnv)

DialogSpec == Init /\ [][DialogNext]_vars

----------------------------------------------------------------------------
(* Materialization of long entity lists.                                   *)

\* n one-letter names, the last of them mentioned twice
Letters(n) ==
    [k \in 1..n |-> <<96 + k>>] \o (IF n > 0 THEN <<(<<96 + n>>)>> ELSE <<>>)

MatEnv ==
    [reads |-> {ReadOk(<<Chapter1Txt>>)},
     classifyReplies |->
        {Text("none", ClassificationReply(Str("chapter-draft"), Num(90), Str("Chapter one"),
                                          List(Letters(c)), List(Letters(l)), List(<<>>),
                                          Num(1), Bool(TRUE))) :
            c \in {0} \cup ((CharacterCap - 1)..MaxCharacters),
            l \in {0} \cup ((LocationCap - 1)..MaxLocations)},
     consolidateReplies |-> {Throws},
     texts |-> {},
     names |-> {<<66, 107>>},
     storeOk |-> BOOLEAN,
     builds |-> MaxBuilds]

MatNext ==
    \/ handleDrop
    \/ filesRead(MatEnv)
    \/ classifyFiles(MatEnv)
    \/ analyzed(MatEnv)
    \/ timeout
    \/ setProjectName(MatEnv)
    \/ buildProject(MatEnv)
    \/ putSettled(MatEnv)

MatSpec == Init /\ [][MatNext]_vars

----------------------------------------------------------------------------
(* Materialization with a store that may reject any put, and Create        *)
(* pressed again after a failure.                                          *)

\* prose that no chapter number could be given to
FragmentReply ==
    ClassificationReply(Str("scene-fragment"), Num(40), Str(""),
                        List(<<>>), List(<<>>), List(<<>>), Null, Bool(FALSE))

\* a second chapter, not finished
Chapter2Reply ==
    ClassificationReply(Str("chapter-draft"), Num(80), Str(""),
                        List(<<Al>>), List(<<>>), List(<<>>), Num(2), Bool(FALSE))

RetryEnv ==
    [reads |-> {ReadOk(<<Chapter1Txt>>), ReadOk(<<OldChapter1Txt, Chapter1Txt>>),
                ReadOk(<<NotesMd, Chapter1Txt>>)},
     classifyReplies |-> {Text("json", ChapterReply), Text("none", Chapter2Reply),
                          Text("none", NotesReply), Text("none", FragmentReply)},
     consolidateReplies |-> {Throws},
     texts |-> {},
     names |-> {<<66, 107>>},
     storeOk |-> BOOLEAN,
     builds |-> MaxBuilds + 1]

RetryNext ==
    \/ handleDrop
    \/ filesRead(RetryEnv)
    \/ classifyFiles(RetryEnv)
    \/ analyzed(RetryEnv)
    \/ timeout
    \/ setProjectName(RetryEnv)
    \/ buildProject(RetryEnv)
    \/ putSettled(RetryEnv)

RetrySpec == Init /\ [][RetryNext]_vars

----------------------------------------------------------------------------
(* The flow under fair scheduling: an awaited promise settles, a timer      *)
(* fires, and the user presses Create whenever the button does something.  *)

FreshEnv ==
    [reads |-> {ReadOk(<<Chapter1Txt>>), ReadOk(<<NotesMd, Chapter1Txt>>)},
     classifyReplies |-> {Throws, Text("json", ChapterReply), Text("none", Chapter2Reply),
                          Text("none", NotesReply)},
     consolidateReplies |-> {Throws},
     texts |-> {},
     names |-> {<<66, 107>>},
     storeOk |-> {TRUE},
     builds |-> MaxBuilds]

FreshNext ==
    \/ handleDrop
    \/ filesRead(FreshEnv)
    \/ classifyFiles(FreshEnv)
    \/ analyzed(FreshEnv)
    \/ timeout
    \/ startFresh
    \/ setProjectName(FreshEnv)
    \/ buildProject(FreshEnv)
    \/ putSettled(FreshEnv)

FreshSpec ==
    /\ Init
    /\ [][FreshNext]_vars
    /\ WF_vars(filesRead(FreshEnv))
    /\ WF_vars(classifyFiles(FreshEnv))
    /\ WF_vars(analyzed(FreshEnv))
    /\ WF_vars(timeout)
    /\ WF_vars(buildProject(FreshEnv))
    /\ WF_vars(putSettled(FreshEnv))

----------------------------------------------------------------------------
(* .ralph/ralph.sh: the loop over the issues file.                         *)

MaxIssues == 2
MaxAttempts == 2

viewVars ==
    <<openRouterKey, step, files, classifiedFiles, analysis, messages, projectName,
      isProcessing, progress, error, timers, pc, i, classified, calls, consolidation,
      projects, codex, chapters, scenes, nextId, project, chapterEntry, completed,
      answers, asked>>

\* jq '.issues[] | select(pending) | select(.attempts < .max_attempts) | .id'
eligible(file) ==
    {k \in DOMAIN file : file[k].status = "pending" /\ file[k].attempts < file[k].max_attempts}

\* tail -1 in place of head -1
get_last_issue(file) ==
    IF eligible(file) = {} THEN ""
    ELSE file[CHOOSE k \in eligible(file) : \A j \in eligible(file) : j <= k].id

\* ... | head -1: the id of the first such issue, the empty string if none
get_next_issue(file) ==
    IF eligible(file) = {} THEN ""
    ELSE file[CHOOSE k \in eligible(file) : \A j \in eligible(file) : k <= j].id

\* jq ".issues[] | select(.id == \"$id\")": the indexes of the issues selected
get_issue(file, id) == {k \in DOMAIN file : file[k].id = id}

\* jq "(.issues[] | select(.id == \"$id\") | .$field) = $value"
update_issue(file, id, field, value) ==
    [k \in DOMAIN file |->
        IF file[k].id = id THEN [file[k] EXCEPT ![field] = value] ELSE file[k]]

\* current is the attempts of the one issue with this id
increment_attempts(file, id) ==
    LET current == file[CHOOSE k \in get_issue(file, id) : TRUE].attempts
    IN update_issue(file, id, "attempts", current + 1)

\* status complete and last_error null
markComplete(file, id) ==
    update_issue(update_issue(file, id, "status", "complete"), id, "last_error", "null")

\* process_issue without the verification of a reported success
process_issue_unverified(file, issue_id, outcome) ==
    IF get_issue(file, issue_id) = {}
    THEN [file |-> file, status |-> 1]
    ELSE LET attempted == increment_attempts(file, issue_id)
         IN IF outcome.pipeline = 0 /\ outcome.log = "TEST PASSED"
            THEN [file |-> markComplete(attempted, issue_id), status |-> 0]
            ELSE [file |-> update_issue(attempted, issue_id, "last_error", "failed"),
                  status |-> 1]

\* process_issue: the file it leaves and its return status. outcome is what
\* the session and the test run did: the status of the claude | tee
\* pipeline, what the log says, and whether run_test succeeds.
process_issue(file, issue_id, outcome) ==
    IF get_issue(file, issue_id) = {}
    THEN [file |-> file, status |-> 1]
    ELSE LET attempted == increment_attempts(file, issue_id)
             failed(text) ==
                 [file |-> update_issue(attempted, issue_id, "last_error", text), status |-> 1]
             verified ==
                 IF outcome.test
                 THEN [file |-> markComplete(attempted, issue_id), status |-> 0]
                 ELSE failed("tail -30 test.log")
         IN IF outcome.pipeline # 0 THEN failed("Claude Code exited with error")
            ELSE IF outcome.log = "TEST PASSED" THEN verified
            ELSE IF outcome.log = "GIVING UP" THEN failed("GIVING UP")
            ELSE verified

Outcomes ==
    [pipeline : {0, 1}, log : {"TEST PASSED", "GIVING UP", ""}, test : BOOLEAN]

\* One iteration of the while loop of run_loop.
run_loop ==
    /\ loop = "running"
    /\ LET issue_id == get_next_issue(issues)
       IN IF issue_id = ""
          THEN /\ loop' = "exited"
               /\ UNCHANGED <<issues, last>>
          ELSE /\ \E outcome \in Outcomes :
                    LET done == process_issue(issues, issue_id, outcome)
                    IN /\ issues' = done.file
                       /\ last' = [id |-> issue_id, file |-> issues, status |-> done.status]
               /\ UNCHANGED loop
    /\ UNCHANGED viewVars /\ UNCHANGED libVars

\* An issue as spec.sh and the README write it, at any point of its life.
Issue(id) ==
    {[id |-> id, status |-> st, attempts |-> a, max_attempts |-> m, last_error |-> "null"] :
        st \in {"pending", "complete"}, a \in 0..MaxAttempts, m \in 1..MaxAttempts}

\* printf "%03d": 001, 002, ...
IssueId(n) == <<48, 48>> \o String(n)

IssuesFiles ==
    UNION {{file \in [1..n -> UNION {Issue(IssueId(k)) : k \in 1..n}] :
                \A k \in 1..n : file[k].id = IssueId(k)} : n \in 0..MaxIssues}

\* The view as IngestionView mounts it, with an API key set.
ViewIdle ==
    /\ openRouterKey = TRUE
    /\ step = "welcome"
    /\ files = <<>>
    /\ classifiedFiles = <<>>
    /\ analysis = NoAnalysis
    /\ messages = <<>>
    /\ projectName = <<>>
    /\ isProcessing = FALSE
    /\ progress = NoProgress
    /\ answers = NoAnswers
    /\ error = NoError
    /\ timers = <<>>
    /\ nextId = 1
    /\ pc = "idle"
    /\ i = 0
    /\ classified = <<>>
    /\ project = NoRecord
    /\ chapterEntry = NoRecord
    /\ completed = <<>>
    /\ calls = <<>>
    /\ consolidation = "none"
    /\ asked = <<>>

RalphInit ==
    /\ ViewIdle
    /\ projects = {} /\ codex = {} /\ chapters = {} /\ scenes = {}
    /\ issues \in IssuesFiles
    /\ loop = "running"
    /\ last = NoRecord
    /\ words = 0
    /\ estimate = NoRecord
    /\ others = NoOthers
    /\ tx = NoRecord

RalphNext == run_loop

\* The sessions and the test runs end, so the loop goes on to its next iteration.
RalphSpec == RalphInit /\ [][RalphNext]_vars /\ WF_vars(run_loop)

----------------------------------------------------------------------------
(* The dialogue with a user who answers whatever is presented: questions   *)
(* with ids of their own and options that are not empty.                   *)

Ending == [id |-> "q4", type |-> "other", question |-> "How does it end?",
           options |-> List(<<"Well", "Badly">>)]

TalkEnv ==
    [reads |-> {ReadOk(<<Chapter1Txt>>)},
     classifyReplies |-> {Text("json", ChapterReply)},
     consolidateReplies |->
        {Text("none", ConsolidationReply(Str("Fantasy"), List(d), List(qs))) :
            d \in {<<>>, <<AlAndAl>>},
            qs \in {<<>>, <<SamePerson>>, <<Protagonist, SamePerson>>,
                    <<SamePerson, Protagonist, Ending>>}},
     texts |-> {"Al"},
     names |-> {<<66, 107>>},
     storeOk |-> {TRUE},
     builds |-> MaxBuilds]

TalkNext ==
    \/ handleDrop
    \/ filesRead(TalkEnv)
    \/ classifyFiles(TalkEnv)
    \/ analyzed(TalkEnv)
    \/ timeout
    \/ handleAnswer(TalkEnv)

TalkSpec ==
    /\ Init
    /\ [][TalkNext]_vars
    /\ WF_vars(filesRead(TalkEnv))
    /\ WF_vars(classifyFiles(TalkEnv))
    /\ WF_vars(analyzed(TalkEnv))
    /\ WF_vars(timeout)
    /\ WF_vars(handleAnswer(TalkEnv))

----------------------------------------------------------------------------
(* estimatedCompletion over every total up to a little more than 80000.    *)

MaxWords == 80500

WordsInit ==
    /\ ViewIdle
    /\ projects = {} /\ codex = {} /\ chapters = {} /\ scenes = {}
    /\ issues = <<>>
    /\ loop = "idle"
    /\ last = NoRecord
    /\ words \in 0..MaxWords
    /\ estimate = NoRecord
    /\ others = NoOthers
    /\ tx = NoRecord

\* The expression of analyzeProject's return value.
estimateCompletion ==
    /\ estimate = NoRecord
    /\ estimate' = [percent |-> estimatedCompletion(words)]
    /\ UNCHANGED <<words, others, tx>>
    /\ UNCHANGED viewVars /\ UNCHANGED ralphVars

WordsNext == estimateCompletion

WordsSpec == WordsInit /\ [][WordsNext]_vars

----------------------------------------------------------------------------
(* files.ts: deleteProject, a Dexie transaction over the nine tables. What *)
(* the transaction has deleted is seen by others when it commits; if one   *)
(* of its operations fails it aborts and nothing of it is kept.            *)

MaxProjects == 2

\* the tables of the schema
TableNames == {"projects", "chapters", "scenes", "codex"} \cup OtherTables

\* the tables without the one deleted last
TablesButOne ==
    <<"projects", "premises", "beatSheets", "chapters", "scenes", "codex", "issues",
      "continuityFacts">>

\* db.projects.delete(id), then one where('projectId').equals(id).delete()
\* per table, in this order
Tables ==
    <<"projects", "premises", "beatSheets", "chapters", "scenes", "codex", "issues",
      "continuityFacts", "foreshadowing">>

\* The committed content of the database, table by table.
database ==
    [t \in TableNames |->
        CASE t = "projects" -> projects
          [] t = "chapters" -> chapters
          [] t = "scenes" -> scenes
          [] t = "codex" -> codex
          [] OTHER -> others[t]]

\* the project a record of table t belongs to
owner(t, r) == IF t = "projects" THEN r.id ELSE r.projectId

\* delete(id) on the primary key of projects; where('projectId').equals(id).delete()
deleteFrom(db, t, id) == [db EXCEPT ![t] = {r \in @ : owner(t, r) # id}]

Committed == Len(Tables) + 1
Aborted == 0

\* handleDelete up to the first operation of the transaction of deleteProject.
handleDelete ==
    /\ IF tx = NoRecord THEN TRUE ELSE tx.at \in {Aborted, Committed}
    /\ \E id \in 1..(MaxProjects + 1) :
          tx' = [id |-> id, at |-> 1, db |-> database, before |-> database]
    /\ UNCHANGED <<words, estimate, others>>
    /\ UNCHANGED viewVars /\ UNCHANGED ralphVars

\* An operation of the transaction has settled: rejected, and the transaction
\* aborts and deleteProject rejects; or done, and the next one is issued; after
\* the last one the transaction commits.
deleteSettled ==
    /\ tx # NoRecord /\ tx.at \in 1..Len(Tables)
    /\ \E ok \in BOOLEAN :
          LET db == deleteFrom(tx.db, Tables[tx.at], tx.id)
          IN IF ~ok
             THEN /\ tx' = [tx EXCEPT !.at = Aborted]
                  /\ UNCHANGED <<projects, chapters, scenes, codex, others>>
             ELSE IF tx.at < Len(Tables)
             THEN /\ tx' = [tx EXCEPT !.at = @ + 1, !.db = db]
                  /\ UNCHANGED <<projects, chapters, scenes, codex, others>>
             ELSE /\ tx' = [tx EXCEPT !.at = Committed, !.db = db]
                  /\ projects' = db.projects
                  /\ chapters' = db.chapters
                  /\ scenes' = db.scenes
                  /\ codex' = db.codex
                  /\ others' = [t \in OtherTables |-> db[t]]
    /\ UNCHANGED <<words, estimate>>
    /\ UNCHANGED <<openRouterKey, step, files, classifiedFiles, analysis, messages, projectName,
                   isProcessing, progress, error, timers, pc, i, classified, calls, consolidation,
                   nextId, project, chapterEntry, completed, answers, asked>>
    /\ UNCHANGED ralphVars

\* The records a project has: in every table, in none, or in one table only.
Holdings == {TableNames \ {"projects"}, {}} \cup {{t} : t \in TableNames \ {"projects"}}

\* The table t when project p has records in the tables holds[p].
filled(t, holds) ==
    {[id |-> 100 * p + k, projectId |-> p] : p \in {q \in DOMAIN holds : t \in holds[q]}, k \in 1..2}

DeleteInit ==
    /\ ViewIdle
    /\ issues = <<>>
    /\ loop = "idle"
    /\ last = NoRecord
    /\ words = 0
    /\ estimate = NoRecord
    /\ tx = NoRecord
    /\ \E stored \in SUBSET (1..MaxProjects), holds \in [1..MaxProjects -> Holdings] :
          /\ projects = {[id |-> p] : p \in stored}
          /\ chapters = filled("chapters", holds)
          /\ scenes = filled("scenes", holds)
          /\ codex = filled("codex", holds)
          /\ others = [t \in OtherTables |-> filled(t, holds)]

DeleteNext ==
    \/ handleDelete
    \/ deleteSettled

DeleteSpec == DeleteInit /\ [][DeleteNext]_vars

----------------------------------------------------------------------------
(* Claims about classification.                                            *)

IsDegraded(record) ==
    /\ record.classification = Str("unknown")
    /\ record.confidence = Num(0)
    /\ record.summary = Str("Failed to analyze")
    /\ record.extractedEntities =
          [characters |-> List(<<>>), locations |-> List(<<>>), concepts |-> List(<<>>)]

\* C1: whatever the gateway does on a call (throws, returns text that is no
\* JSON, returns JSON), classifyFile itself returns; and when the gateway
\* throws or returns no JSON, what it returns is the degraded record.
C1_ClassifyFileNeverThrows ==
    \A k \in DOMAIN calls :
        /\ ~calls[k].threw
        /\ replyKind(calls[k].reply) \in {"throw", "error"}
              => IsDegraded(classifyFile(files[k], calls[k].reply).value)

Carries(record, file) ==
    record.name = file.name /\ record.path = file.path /\ record.content = file.content

\* C2: the loop of classifyFiles has one result per file it has been through,
\* in the files' order and carrying the file's name, path and content; the
\* result of a file is the one it gets when classified alone with the same
\* reply, whatever happened to the other files; and once the last call has
\* settled, the list is the state's classifiedFiles and the run has gone on
\* to the analysis.
C2_OneClassifiedPerFile ==
    /\ Len(classified) = Len(calls)
    /\ Len(classified) <= Len(files)
    /\ pc = "classifyFile" => Len(classified) = i - 1
    /\ \A k \in DOMAIN classified :
          /\ Carries(classified[k], files[k])
          /\ <<classified[k]>> = pushResult(<<>>, files[k], calls[k].reply)
          /\ replyKind(calls[k].reply) # "object" => IsDegraded(classified[k])
    /\ (files # <<>> /\ Len(calls) = Len(files)) =>
          /\ classifiedFiles = classified
          /\ step # "classifying"
          /\ Msg("assistant", "I've read all your files.") \in Range(messages)

\* Two files, the first call failed, the second returned usable JSON, and the
\* analysis is under way.
C2_Witness ==
    /\ step = "analyzing" /\ pc = "analyzeProject"
    /\ Len(files) = 2
    /\ calls[1].threw
    /\ replyKind(calls[2].reply) = "object"
    /\ ~IsDegraded(classifiedFiles[2])

----------------------------------------------------------------------------
(* Claims about the aggregation.                                           *)

EntityClasses == {"characters", "locations", "concepts"}

\* The key as the claims word it: the trimmed name, lower-cased.
claimKey(s) == toLowerCase(trim(s))

\* Every extracted string of a class with the name of its file, in the order
\* the files and their lists are scanned.
RECURSIVE occurrences(_, _)
occurrences(fs, class) ==
    IF fs = <<>> THEN <<>>
    ELSE [k \in DOMAIN Head(fs).extractedEntities[class].v |->
             [name |-> Head(fs).extractedEntities[class].v[k], file |-> Head(fs).name]]
         \o occurrences(Tail(fs), class)

\* Where a key is first seen among the occurrences.
firstSeen(occ, key) ==
    CHOOSE a \in DOMAIN occ :
        /\ claimKey(occ[a].name) = key
        /\ \A b \in 1..(a - 1) : claimKey(occ[b].name) # key

NoRepeats(list) == \A a, b \in DOMAIN list : a # b => list[a] # list[b]

\* C3: two extracted strings of a class are in the same mention record iff
\* their trimmed, lower-cased forms are equal: every string's key is the key of
\* exactly one record. The record's name is the first string with that key,
\* its mentions the number of strings with that key, and appearsIn the names
\* of the files that list such a string, each once.
C3_MergeByNormalizedKey ==
    analysis # NoAnalysis =>
        \A class \in EntityClasses :
            LET occ == occurrences(analysis.files, class)
                records == analysis[class]
                withKey(key) == {a \in DOMAIN occ : claimKey(occ[a].name) = key}
            IN /\ \A a \in DOMAIN occ :
                     Cardinality({r \in DOMAIN records :
                                    claimKey(records[r].name) = claimKey(occ[a].name)}) = 1
               /\ \A r \in DOMAIN records :
                     LET key == claimKey(records[r].name)
                     IN /\ withKey(key) # {}
                        /\ records[r].name = occ[firstSeen(occ, key)].name
                        /\ records[r].mentions = Cardinality(withKey(key))
                        /\ NoRepeats(records[r].appearsIn)
                        /\ Range(records[r].appearsIn) = {occ[a].file : a \in withKey(key)}

\* " al " first, then "Al" twice more: one record named " al ", three
\* mentions, two files, one of which lists the name twice.
C3_Witness ==
    /\ analysis # NoAnalysis
    /\ \E r \in DOMAIN analysis.characters :
          /\ analysis.characters[r].name = alPadded
          /\ analysis.characters[r].mentions = 3
          /\ analysis.characters[r].appearsIn = <<"ch1.txt", "notes.md">>
    /\ Al \in Range(analysis.files[1].extractedEntities.characters.v)

\* C4: each list is in descending order of mentions, and records with equal
\* mentions are in the order their keys were first seen.
C4_SortedByMentionsStable ==
    analysis # NoAnalysis =>
        \A class \in EntityClasses :
            LET occ == occurrences(analysis.files, class)
                records == analysis[class]
                seen(r) == firstSeen(occ, claimKey(records[r].name))
            IN \A a, b \in DOMAIN records :
                  a < b =>
                     /\ records[a].mentions >= records[b].mentions
                     /\ records[a].mentions = records[b].mentions => seen(a) < seen(b)

\* Three characters: the one seen second has the most mentions and comes
\* first, the two others tie and keep their order.
C4_Witness ==
    /\ analysis # NoAnalysis
    /\ Len(analysis.characters) = 3
    /\ analysis.characters[1].mentions = 2
    /\ analysis.characters[2].mentions = 1
    /\ analysis.characters[3].mentions = 1
    /\ LET occ == occurrences(analysis.files, "characters")
       IN firstSeen(occ, claimKey(analysis.characters[2].name))
             < firstSeen(occ, claimKey(analysis.characters[1].name))

\* The files that count for the structure guess, and the bucket of each.
contributors(fs) ==
    SelectSeq(fs, LAMBDA f : f.classification \in {Str("chapter-draft"), Str("scene-fragment")})

bucketOf(f) ==
    IF f.chapterGuess.t = "num" /\ f.chapterGuess.v # 0 THEN f.chapterGuess.v ELSE 0

RECURSIVE totalWordsOf(_)
totalWordsOf(fs) ==
    IF fs = <<>> THEN 0 ELSE countWords(Head(fs).content) + totalWordsOf(Tail(fs))

\* C5: one ChapterGuess per chapter number among the chapter-draft and
\* scene-fragment files, a file without a number counting for 0; it lists its
\* files, sums their words, takes its status from its first file alone, and
\* has alternate versions iff it has two files or more.
C5_ChapterBuckets ==
    analysis # NoAnalysis =>
        LET guesses == analysis.structureGuess.chapters
            from == contributors(analysis.files)
            of(number) == SelectSeq(from, LAMBDA f : bucketOf(f) = number)
        IN /\ {guesses[c].number : c \in DOMAIN guesses} = {bucketOf(from[k]) : k \in DOMAIN from}
           /\ \A c, d \in DOMAIN guesses : c # d => guesses[c].number # guesses[d].number
           /\ \A c \in DOMAIN guesses :
                 LET mine == of(guesses[c].number)
                 IN /\ guesses[c].files = [k \in DOMAIN mine |-> mine[k].name]
                    /\ guesses[c].wordCount = totalWordsOf(mine)
                    /\ guesses[c].status =
                          (IF mine[1].isComplete = Bool(TRUE) THEN "complete" ELSE "partial")
                    /\ guesses[c].hasAlternateVersions = (Len(mine) >= 2)

\* Two chapter files without a chapter number: one guess, number 0, complete
\* after its first file although the second is not complete.
C5_Witness ==
    /\ analysis # NoAnalysis
    /\ Len(analysis.files) = 2
    /\ analysis.files[1].chapterGuess = Null
    /\ analysis.files[1].isComplete = Bool(TRUE)
    /\ analysis.files[2].isComplete = Bool(FALSE)
    /\ Len(analysis.structureGuess.chapters) = 1
    /\ analysis.structureGuess.chapters[1].number = 0
    /\ analysis.structureGuess.chapters[1].status = "complete"
    /\ analysis.structureGuess.chapters[1].hasAlternateVersions
    /\ analysis.structureGuess.chapters[1].wordCount = 5

----------------------------------------------------------------------------
(* Claims about the consolidation and the dialogue.                        *)

PastDialogue == step \in {"confirm", "building", "complete"}

\* A reply that parses and says nothing.
EmptyReply == Text("none", ConsolidationReply(Undefined, Undefined, Undefined))

\* C6: when the consolidation call throws or its reply is no JSON, the
\* analysis is returned all the same, with genre 'Fiction', no duplicates, no
\* questions and the lists and structure guess the local aggregation gives;
\* no error of the analysis is shown, and the only step after the summary is
\* confirm, no question having been asked.
C6_ConsolidationFailsSoft ==
    consolidation \in {"throw", "error"} =>
        /\ analysis # NoAnalysis
        /\ analysis.genre = "Fiction"
        /\ analysis.possibleDuplicates = <<>>
        /\ analysis.questions = <<>>
        /\ LET local == analyzeProject(classifiedFiles, EmptyReply).value
           IN /\ analysis.files = classifiedFiles
              /\ analysis.characters = local.characters
              /\ analysis.locations = local.locations
              /\ analysis.concepts = local.concepts
              /\ analysis.structureGuess = local.structureGuess
              /\ analysis.totalWords = local.totalWords
        /\ error # "Failed to analyze project. Please try again."
        /\ step = "summary" \/ PastDialogue
        /\ step = "summary" => timers = <<[run |-> "confirm"]>>
        /\ asked = <<>>
        /\ answers = NoAnswers

\* The consolidation call threw after an aggregation that found characters
\* and a chapter, and the run is at the naming step.
C6_Witness ==
    /\ consolidation = "throw"
    /\ step = "confirm"
    /\ analysis # NoAnalysis
    /\ analysis.characters # <<>>
    /\ analysis.structureGuess.chapters # <<>>

\* C7: once the summary has been presented, the dialogue has asked
\* questions[0] first when there are questions, and is past the dialogue, no
\* answer having been given, when there are none; whatever possibleDuplicates
\* holds.
C7_FirstQuestionOrDone ==
    (analysis # NoAnalysis /\ step # "summary") =>
        IF analysis.questions # <<>>
        THEN asked # <<>> /\ asked[1] = 1
        ELSE PastDialogue /\ answers = NoAnswers

\* Index of the first question whose id is no key of the answer map, 0 if
\* every id is a key.
firstWithoutKey(an, ans) ==
    IF \E k \in DOMAIN an.questions : an.questions[k].id \notin DOMAIN ans
    THEN CHOOSE k \in DOMAIN an.questions :
            /\ an.questions[k].id \notin DOMAIN ans
            /\ \A j \in 1..(k - 1) : an.questions[j].id \in DOMAIN ans
    ELSE 0

\* C8: in the questions step the question presented is the first of the list
\* whose id is no key of the answer map, and the run is past the dialogue
\* only when every question id is a key of the answer map.
C8_NextIsFirstWithoutKey ==
    analysis # NoAnalysis =>
        /\ step = "questions" =>
              renderCurrentQuestion(analysis, answers, step) = firstWithoutKey(analysis, answers)
        /\ PastDialogue => \A k \in DOMAIN analysis.questions :
                                analysis.questions[k].id \in DOMAIN answers

\* C9: the questions are put to the user in list order, each once: the k-th
\* question put is questions[k], and past the dialogue every question has
\* been put.
C9_EachQuestionOnceInOrder ==
    analysis # NoAnalysis =>
        /\ \A k \in DOMAIN asked : asked[k] = k
        /\ PastDialogue => Len(asked) = Len(analysis.questions)

----------------------------------------------------------------------------
(* Claims about materialization.                                           *)

AtMost(n, cap) == IF n < cap THEN n ELSE cap

\* C10: when buildProject has completed, the codex holds, under the new
\* project's id, exactly min(C, 20) character entries, one for each of the
\* first 20 characters of the ranked list, and exactly min(L, 15) location
\* entries, one for each of the first 15 locations; every entry written since
\* the project's id was drawn carries that id, and the project is stored.
C10_CodexCaps ==
    step = "complete" =>
        LET entries(type) == {e \in codex : e.projectId = project.id /\ e.type = type}
            C == Len(analysis.characters)
            L == Len(analysis.locations)
        IN /\ Cardinality(entries("character")) = AtMost(C, 20)
           /\ \A k \in 1..AtMost(C, 20) :
                 Cardinality({e \in entries("character") :
                                 /\ e.name = analysis.characters[k].name
                                 /\ e.attributes.mentions = String(analysis.characters[k].mentions)}) = 1
           /\ Cardinality(entries("location")) = AtMost(L, 15)
           /\ \A k \in 1..AtMost(L, 15) :
                 Cardinality({e \in entries("location") :
                                 e.name = analysis.locations[k].name}) = 1
           /\ \A e \in codex : e.id > project.id => e.projectId = project.id
           /\ \E p \in projects : p.id = project.id

\* Twenty-five characters and twenty locations, materialized.
C10_Witness ==
    /\ step = "complete"
    /\ Len(analysis.characters) = 25
    /\ Len(analysis.locations) = 20
    /\ analysis.characters[1].mentions = 2
    /\ \E e \in codex : e.type = "character" /\ e.attributes.mentions = <<50>>

----------------------------------------------------------------------------
(* Claims about failures of the store.                                     *)

\* Create has been pressed, and a put of that attempt has been rejected
BuildFailed ==
    /\ error = "Failed to create project. Please try again."
    /\ pc = "idle"

\* C11: whatever puts are rejected during materialization and however often
\* Create is pressed again from the confirm step, the store holds at most one
\* Project record of this ingestion run.
C11_RetryKeepsOneProject == Cardinality(projects) <= 1


\* C12: a rejected put of materialization sets the error shown to the user,
\* puts the step back to confirm with processing off, and the whole attempt,
\* from Create to the rejection, leaves the analysis, the answers and the
\* project name as they were, so that the Create button is enabled again.
C12_StoreFailureSurfaced ==
    [][/\ (ConfirmShown /\ isProcessing') \/ pc = "put" =>
            /\ analysis' = analysis
            /\ answers' = answers
            /\ projectName' = projectName
       /\ pc = "put" /\ pc' = "idle" /\ step' # "complete" =>
            /\ error' = "Failed to create project. Please try again."
            /\ ConfirmShown'
            /\ trim(projectName') # <<>>
            /\ analysis' # NoAnalysis]_vars

C12_Witness ==
    /\ BuildFailed
    /\ ConfirmShown
    /\ answers # NoAnswers
    /\ projects # {}
    /\ codex = {}

\* The writes of one table that buildProject issues for the analysis.
writesTo(table) ==
    SelectSeq(writesOf(analysis, classifiedFiles), LAMBDA w : w.table = table)

\* Every write of the attempt that drew the project id is in the store.
Stored(id) ==
    /\ \E p \in projects : p.id = id
    /\ Cardinality({e \in codex : e.projectId = id}) = Len(writesTo("codex"))
    /\ Cardinality({c \in chapters : c.projectId = id}) = Len(writesTo("chapters"))
    /\ Cardinality({sc \in scenes : sc.projectId = id}) = Len(writesTo("scenes"))

\* C13: the step is complete, and onComplete is scheduled or has been called
\* with a project id, only when the project record, every codex entry, every
\* chapter and every scene of the attempt that drew that id are in the store.
C13_CompleteOnlyAfterAllWrites ==
    /\ step = "complete" => Stored(project.id)
    /\ \A k \in DOMAIN timers : timers[k].run = "onComplete" => Stored(timers[k].id)
    /\ \A k \in DOMAIN completed : Stored(completed[k])

\* Completed at the second attempt, after a rejected put in the first.
C13_Witness ==
    /\ step = "complete"
    /\ completed = <<project.id>>
    /\ BuildFailed
    /\ Cardinality(projects) = 2
    /\ scenes # {}

----------------------------------------------------------------------------
(* Claims about the steps of the flow.                                     *)

\* The read of the dropped or picked items found no text file.
NothingFound ==
    /\ messages # <<>>
    /\ messages[Len(messages)].content = "I couldn't find any text files"

\* C14: after a drop or a folder pick that yields no readable text file the
\* user has the assistant's message and no error, the step is welcome with
\* processing off and no files held, and the two choices of the welcome block
\* are shown again.
C14_NothingFoundBackToStart ==
    NothingFound =>
        /\ error = NoError
        /\ step = "welcome"
        /\ ~isProcessing
        /\ files = <<>>
        /\ pc = "idle"
        /\ WelcomeShown

\* 'Starting fresh' was chosen and a name was typed.
FreshNamed ==
    /\ step = "confirm"
    /\ analysis = NoAnalysis
    /\ calls = <<>>
    /\ trim(projectName) # <<>>

\* C15: once 'Starting fresh' was chosen from the welcome block (no gateway
\* call made) and a non-blank name is entered, pressing Create leads to the
\* complete step with exactly one Project record of that name stored and its
\* id handed to onComplete.
C15_FreshStartCompletes ==
    FreshNamed ~>
        /\ step = "complete"
        /\ Cardinality({p \in projects : p.name = trim(projectName)}) = 1
        /\ completed = <<project.id>>

----------------------------------------------------------------------------
(* Claims about replies that parse but are not of the schema.              *)

Classifications ==
    {"chapter-draft", "scene-fragment", "character-doc", "worldbuilding", "plot-outline",
     "notes", "timeline", "dialogue", "research", "unknown"}

\* confidence in hundredths
OfSchema(record) ==
    /\ record.classification.t = "str" /\ record.classification.v \in Classifications
    /\ record.confidence.t = "num" /\ record.confidence.v \in 0..100
    /\ \A f \in {"characters", "locations", "concepts"} :
          record.extractedEntities[f].t = "list"

\* C16: every ClassifiedFile, those of the loop under way and those kept for
\* the analysis, has a classification of the enum, a confidence within 0..1
\* and lists as entities; a reply that parses but violates the schema gives
\* the degraded record.
C16_SchemaViolationsDegrade ==
    /\ \A k \in DOMAIN classified : OfSchema(classified[k])
    /\ \A k \in DOMAIN classifiedFiles : OfSchema(classifiedFiles[k])
    /\ \A k \in DOMAIN calls :
          (~calls[k].threw /\ calls[k].reply = Text("none", OffSchemaReply))
             => IsDegraded(classifyFile(files[k], calls[k].reply).value)

----------------------------------------------------------------------------
(* Claims about the order of the steps.                                    *)

IngestionStep ==
    <<"welcome", "dropping", "reading", "classifying", "analyzing", "summary",
      "characters", "structure", "questions", "confirm", "building", "complete">>

\* the position of a step in the order of the stages
stage(s) == CHOOSE k \in DOMAIN IngestionStep : IngestionStep[k] = s

\* C17: once the files have been read (the step is classifying or later) no
\* step of the flow, a failure of a gateway call, of the analysis or of a put
\* included, takes the step to an earlier stage.
C17_StepsOnlyForward ==
    [][stage(step) >= stage("classifying") => stage(step') >= stage(step)]_vars

----------------------------------------------------------------------------
(* Claims about the ralph loop.                                            *)

\* the issue with this id in a file of unique ids
issueOf(file, id) == file[CHOOSE k \in get_issue(file, id) : TRUE]

\* C18: process_issue on a pending issue sets its status to complete and its
\* last_error to null, leaving attempts alone, when the verifying test run
\* passes; otherwise it adds one to attempts, records last_error and leaves
\* the status pending.
C18_AttemptsCountFailures ==
    last # NoRecord =>
        LET before == issueOf(last.file, last.id)
            after == issueOf(issues, last.id)
        IN IF last.status = 0
           THEN /\ after.status = "complete"
                /\ after.last_error = "null"
                /\ after.attempts = before.attempts
           ELSE /\ after.status = "pending"
                /\ after.last_error # "null"
                /\ after.attempts = before.attempts + 1

\* complete, or out of attempts
settled(issue) == issue.status = "complete" \/ issue.attempts >= issue.max_attempts

AllSettled(file) == \A k \in DOMAIN file : settled(file[k])

\* C19: run_loop terminates; every issue it processes is the first one in
\* file order that is pending with attempts < max_attempts, so an issue out
\* of attempts is passed over while later issues are still processed; and it
\* exits when, and only when, every issue is complete or out of attempts.
C19_LoopTerminates ==
    /\ <>(loop = "exited")
    /\ [](loop = "exited" => AllSettled(issues))
    /\ [][loop = "running" /\ AllSettled(issues) => loop' = "exited"]_vars
    /\ [](last # NoRecord =>
            \E k \in DOMAIN last.file :
                /\ last.file[k].id = last.id
                /\ ~settled(last.file[k])
                /\ \A j \in 1..(k - 1) : settled(last.file[j]))

\* The first issue ran out of attempts in this run, the second was then
\* completed, and the loop has exited.
C19_Witness ==
    /\ loop = "exited"
    /\ Len(issues) = 2
    /\ issues[1].status = "pending"
    /\ issues[1].last_error # "null"
    /\ issues[1].attempts = issues[1].max_attempts
    /\ issues[2].status = "complete"
    /\ last # NoRecord /\ last.id = issues[2].id

----------------------------------------------------------------------------
(* Claims about the import of chapters.                                    *)

\* the classified files whose name is in the chapter's file list
filesOf(chapter) ==
    {k \in DOMAIN classifiedFiles : classifiedFiles[k].name \in Range(chapter.files)}

\* C20: when buildProject has completed, each ChapterGuess has exactly one
\* Chapter under the new project and at most one Scene under that Chapter;
\* the Scene exists iff some classified file's name is in the chapter's file
\* list, and then it carries the whole content of the first such file, the
\* status drafted iff the guess is complete (planned otherwise) and the word
\* count of that content.
C20_OneSceneFromFirstFile ==
    step = "complete" =>
        \A g \in DOMAIN analysis.structureGuess.chapters :
            LET chapter == analysis.structureGuess.chapters[g]
                written == {c \in chapters : c.projectId = project.id /\ c.number = chapter.number}
                under == {sc \in scenes : \E c \in written : sc.chapterId = c.id}
            IN /\ Cardinality(written) = 1
               /\ Cardinality(under) <= 1
               /\ under # {} <=> filesOf(chapter) # {}
               /\ \A sc \in under :
                     LET first == CHOOSE k \in filesOf(chapter) : \A j \in filesOf(chapter) : k <= j
                     IN /\ sc.content = classifiedFiles[first].content
                        /\ sc.status = IF chapter.status = "complete" THEN "drafted" ELSE "planned"
                        /\ sc.status = "drafted" <=> chapter.status = "complete"
                        /\ sc.wordCount = countWords(classifiedFiles[first].content)
                        /\ sc.projectId = project.id

\* Two versions of one chapter: one scene, from the first file, whose word
\* count is not the chapter's.
C20_Witness ==
    /\ step = "complete"
    /\ Len(classifiedFiles) = 2
    /\ classifiedFiles[1].content # classifiedFiles[2].content
    /\ \E g \in DOMAIN analysis.structureGuess.chapters :
          /\ Len(analysis.structureGuess.chapters[g].files) = 2
          /\ analysis.structureGuess.chapters[g].status # "complete"
          /\ \E sc \in scenes :
                /\ sc.projectId = project.id
                /\ sc.content = classifiedFiles[1].content
                /\ sc.status = "planned"
                /\ sc.wordCount # analysis.structureGuess.chapters[g].wordCount

\* C21: every Chapter in the store has the number of a ChapterGuess of the
\* analysis (0 for the bucket of files without a chapter number) and, the
\* guesses having no title, the title "Chapter {number}" when the number is
\* not 0 and the empty string when it is 0.
C21_ChapterTitles ==
    \A c \in chapters :
        /\ \E g \in DOMAIN analysis.structureGuess.chapters :
              analysis.structureGuess.chapters[g].number = c.number
        /\ c.title = IF c.number # 0
                     THEN <<67, 104, 97, 112, 116, 101, 114, 32>> \o String(c.number)
                     ELSE <<>>

----------------------------------------------------------------------------
(* Claims about the dialogue under a user who answers.                     *)

userMessages == SelectSeq(messages, LAMBDA m : m.type = "user")

\* C22: with a user who answers each question presented, the questions step
\* always leads to the confirm step, and when it is reached the user has
\* given exactly as many answers as the analysis has questions.
C22_DialogueReachesDone ==
    /\ (step = "questions") ~> (step = "confirm")
    /\ [](step = "confirm" => Len(userMessages) = Len(analysis.questions))

\* C23: a call handleAnswer(id, text) appends text to the transcript as the
\* user's message and sets the answer map's entry for id to text, replacing
\* the entry id had; the entries of all other ids, the analysis and the rest
\* of the view's state and of the store are as they were.
C23_AnswerFrame ==
    [][Len(userMessages') > Len(userMessages) =>
        LET text == messages'[Len(messages')].content
        IN /\ messages' = Append(messages, Msg("user", text))
           /\ \E id \in DOMAIN answers' :
                 /\ id = analysis.questions[renderCurrentQuestion(analysis, answers, step)].id
                 /\ answers'[id] = text
                 /\ DOMAIN answers' = DOMAIN answers \cup {id}
                 /\ \A k \in DOMAIN answers \ {id} : answers'[k] = answers[k]
           /\ analysis' = analysis
           /\ UNCHANGED <<step, files, classifiedFiles, projectName, isProcessing, progress,
                          error, pc, projects, codex, chapters, scenes>>]_vars

\* The empty option was answered first and the same question answered again:
\* one entry, holding the later answer.
C23_Witness ==
    /\ Len(userMessages) = 2
    /\ userMessages[1].content = ""
    /\ DOMAIN answers = {"q3"}
    /\ answers["q3"] = "The newer one"

----------------------------------------------------------------------------
(* Claims about the order of the gateway calls.                            *)

\* C24: no handler can be started while a call of the run is awaited; the
\* call for file i is awaited when exactly i - 1 calls have settled, under
\* the progress message 'Analyzing file i of N'; the consolidation call is
\* awaited, and has returned, only when all N classification calls have
\* settled; and the i of the progress messages goes up by one from 1.
C24_OneCallAtATime ==
    /\ [](WelcomeShown \/ step = "dropping" => pc = "idle")
    /\ [](pc = "classifyFile" =>
            /\ i \in 1..Len(files)
            /\ Len(calls) = i - 1
            /\ progress = FileProgress(i, Len(files))
            /\ consolidation = "none")
    /\ [](pc = "analyzeProject" \/ consolidation # "none" => Len(calls) = Len(files))
    /\ [][progress'.text = "Analyzing file" /\ progress' # progress =>
            progress'.i = IF progress.text = "Analyzing file" THEN progress.i + 1 ELSE 1]_vars

\* The call for the second of two files is awaited.
C24_Witness ==
    /\ pc = "classifyFile"
    /\ Len(files) = 2
    /\ i = 2
    /\ Len(calls) = 1
    /\ calls[1].threw

----------------------------------------------------------------------------
(* Claims about the word totals.                                           *)

\* C25: estimatedCompletion is the quotient totalWords / 80000 * 100 rounded
\* to the nearest integer (a half going up) and capped at 100; it lies in
\* 0..100 and is 100 from 80000 words on.
C25_EstimatedCompletion ==
    estimate # NoRecord =>
        /\ estimate.percent \in 0..100
        /\ words >= 80000 => estimate.percent = 100
        /\ \A k \in 0..99 :
              (800 * k - 400 <= words /\ words < 800 * k + 400) => estimate.percent = k

----------------------------------------------------------------------------
(* Claims about the records of the store.                                  *)

\* C26: the content of every Scene in the store is the content of a file
\* that went into the ChapterGuess of the Scene's chapter: a file classified
\* chapter-draft or scene-fragment whose chapter number is the chapter's.
C26_SceneFromOwnChapter ==
    \A sc \in scenes :
        \E c \in chapters :
            /\ c.id = sc.chapterId
            /\ \E k \in DOMAIN classifiedFiles :
                  /\ isChapterFile(classifiedFiles[k])
                  /\ chapterNumberOf(classifiedFiles[k]) = c.number
                  /\ classifiedFiles[k].content = sc.content

\* C27: at every point of materialization, and in what a rejected put leaves
\* behind, every codex entry, chapter and scene of the store carries the id
\* of a Project of the store, and every scene the id of a chapter of the
\* store that has the scene's projectId.
C27_ParentsFirst ==
    /\ \A e \in codex : \E p \in projects : p.id = e.projectId
    /\ \A c \in chapters : \E p \in projects : p.id = c.projectId
    /\ \A sc \in scenes :
          /\ \E p \in projects : p.id = sc.projectId
          /\ \E c \in chapters : c.id = sc.chapterId /\ c.projectId = sc.projectId

\* A chapter was written, the put of its scene was rejected, and the second
\* attempt has written a scene.
C27_Witness ==
    /\ BuildFailed
    /\ Cardinality(chapters) > Cardinality(scenes)
    /\ Cardinality(projects) = 2
    /\ scenes # {}
    /\ codex # {}

----------------------------------------------------------------------------
(* Claims about the counts of the aggregation.                             *)

RECURSIVE sumOf(_, _)
sumOf(list, field) == IF list = <<>> THEN 0 ELSE Head(list)[field] + sumOf(Tail(list), field)

\* C28: in every analysis each mention record has mentions >= the number of
\* files in appearsIn >= 1 and lists no file name twice; the mentions of a
\* class add up to the number of entity strings of that class over all
\* files; no two records of a class have the same trimmed lower-cased name;
\* and the word counts of the ChapterGuesses add up to at most totalWords.
C28_AggregationCounts ==
    analysis # NoAnalysis =>
        /\ \A class \in EntityClasses :
              LET records == analysis[class]
              IN /\ \A r \in DOMAIN records :
                       /\ records[r].mentions >= Len(records[r].appearsIn)
                       /\ Len(records[r].appearsIn) >= 1
                       /\ NoRepeats(records[r].appearsIn)
                 /\ sumOf(records, "mentions") = Len(occurrences(analysis.files, class))
                 /\ \A a, b \in DOMAIN records :
                       a # b => claimKey(records[a].name) # claimKey(records[b].name)
        /\ sumOf(analysis.structureGuess.chapters, "wordCount") <= analysis.totalWords

\* A name listed twice by one file and once by another, and a file with
\* words that is no chapter file.
C28_Witness ==
    /\ analysis # NoAnalysis
    /\ \E r \in DOMAIN analysis.characters :
          /\ analysis.characters[r].mentions = 3
          /\ Len(analysis.characters[r].appearsIn) = 2
    /\ Len(analysis.characters) = 2
    /\ sumOf(analysis.structureGuess.chapters, "wordCount") < analysis.totalWords

----------------------------------------------------------------------------
(* Claims about deleteProject.                                             *)

\* C29: while deleteProject(id) is under way, and when it was aborted, the
\* database others see is the one it started from; once it has committed, no
\* table holds the project id or a record whose projectId is id, and the
\* records of every other project are those it started from.
C29_DeleteIsAtomic ==
    tx # NoRecord =>
        IF tx.at # Committed
        THEN database = tx.before
        ELSE \A t \in TableNames :
                /\ \A r \in database[t] : owner(t, r) # tx.id
                /\ database[t] = {r \in tx.before[t] : owner(t, r) # tx.id}

\* Project 1 had records in all tables, project 2 as well; 1 was deleted.
C29_Witness ==
    /\ tx # NoRecord
    /\ tx.at = Committed
    /\ tx.id = 1
    /\ \A t \in TableNames : \E r \in tx.before[t] : owner(t, r) = 1
    /\ \A t \in TableNames : \E r \in database[t] : owner(t, r) = 2

----------------------------------------------------------------------------
(* Claims about the safety of the ralph loop.                              *)

\* the outcomes of a session by which process_issue turns file into after
explaining(file, id, after) == {o \in Outcomes : process_issue(file, id, o).file = after}

\* get_next_issue prints the id of issue k of the file
selected(file, k) == eligible(file) # {} /\ get_next_issue(file) = file[k].id

\* C30: an issue becomes complete only in an iteration that selected it and
\* whose own run_test passed after a session that did not exit with an error,
\* whatever the log of the session says; get_next_issue never selects a
\* complete issue and the loop never changes one; and an issue whose attempts
\* the loop changes has no more attempts than its max_attempts.
C30_RalphSafety ==
    /\ [](\A k \in DOMAIN issues :
            issues[k].status = "complete" => ~selected(issues, k))
    /\ [][\A k \in DOMAIN issues :
            /\ issues[k].status = "complete" => issues'[k] = issues[k]
            /\ issues[k].status # "complete" /\ issues'[k].status = "complete" =>
                  /\ selected(issues, k)
                  /\ explaining(issues, issues[k].id, issues') # {}
                  /\ \A o \in explaining(issues, issues[k].id, issues') :
                        o.test /\ o.pipeline = 0
            /\ issues'[k].attempts # issues[k].attempts =>
                  /\ issues'[k].attempts = issues[k].attempts + 1
                  /\ issues'[k].attempts <= issues'[k].max_attempts]_vars

\* The issue just processed was completed by its last allowed attempt, and
\* another one is left pending with its attempts used up.
C30_Witness ==
    /\ last # NoRecord
    /\ last.status = 0
    /\ \E k, j \in DOMAIN issues :
          /\ issues[k].id = last.id
          /\ last.file[k].status = "pending"
          /\ issues[k].status = "complete"
          /\ issues[k].attempts = issues[k].max_attempts
          /\ issues[k].attempts > 1
          /\ issues[j].status = "pending"
          /\ issues[j].attempts >= issues[j].max_attempts


====
